---- MODULE Spec2Model ----
(***************************************************************************)
(* polygraphia: the four classical cipher schemes (Caesar, Affine,        *)
(* Playfair, Hill) with the modular arithmetic and the matrix engine      *)
(* they use.  One instance of one scheme is constructed by Init; the      *)
(* actions are the public setters and encrypt / decrypt.  Characters are  *)
(* their code points, strings are sequences of code points.               *)
(***************************************************************************)
EXTENDS Integers, Sequences, FiniteSets, TLC

VARIABLES
    scheme,   \* which type the instance is: "caesar", "affine", "playfair", "hill"
    phase,    \* "live" after a successful constructor, "failed" after Err
    self,     \* the fields of the instance (a record), <<>> when there is none
    last      \* the last call and what it returned: [op, arg, res, plain];
              \* plain = <<t>> when a decrypt was given the output of encrypt(t)

vars == <<scheme, phase, self, last>>

(***************************************************************************)
(* Bounds of the model.                                                    *)
(***************************************************************************)
MaxTextLen == 2
MaxKeyLen == 4
MaxMultiplierArg == 27
MaxPlainLen == 5

(***************************************************************************)
(* Results: Ok(val) or Err(kind).                                          *)
(***************************************************************************)
Ok(v) == [kind |-> "Ok", val |-> v]
Err(k) == [kind |-> k, val |-> <<>>]
IsOk(r) == r.kind = "Ok"

(***************************************************************************)
(* char helpers of the standard library, on code points.                   *)
(***************************************************************************)
LowerA == 97
UpperA == 65
LetterX == 120
LetterI == 105
LetterJ == 106
AlphabetSize == 26
U8Max == 255

is_ascii_uppercase(c) == c \in UpperA..(UpperA + 25)
is_ascii_lowercase(c) == c \in LowerA..(LowerA + 25)
is_ascii_alphabetic(c) == is_ascii_uppercase(c) \/ is_ascii_lowercase(c)
to_ascii_lowercase(c) == IF is_ascii_uppercase(c) THEN c + 32 ELSE c

\* text.chars().filter(|c| c.is_ascii_alphabetic())
RECURSIVE FilterAlpha(_)
FilterAlpha(t) ==
    IF t = <<>> THEN <<>>
    ELSE IF is_ascii_alphabetic(Head(t))
         THEN <<Head(t)>> \o FilterAlpha(Tail(t))
         ELSE FilterAlpha(Tail(t))

\* text.chars().any(|c| c.is_ascii_alphabetic())
AnyAlpha(t) == \E i \in 1..Len(t) : is_ascii_alphabetic(t[i])

\* .map(|c| c.to_ascii_lowercase())
Lowercase(t) == [i \in 1..Len(t) |-> to_ascii_lowercase(t[i])]

\* all sequences over S of length 0..n
SeqsUpTo(S, n) == UNION {[1..k -> S] : k \in 0..n}

(***************************************************************************)
(* utils/math.rs                                                           *)
(***************************************************************************)
RECURSIVE gcd(_, _)
gcd(a, b) == IF b = 0 THEN a ELSE gcd(b, a % b)

are_coprime(a, b) == gcd(a, b) = 1

\* variant of mod_inverse: the products taken in u8, without the casts to u16
mod_inverse_u8(a, m) ==
    IF ~are_coprime(a, m) THEN Err("InvalidInput")
    ELSE LET hits == {i \in 1..(m - 1) : ((a * i) % 256) % m = 1}
         IN  IF hits # {}
             THEN Ok(CHOOSE i \in hits : \A j \in hits : i <= j)
             ELSE Err("InvalidInput")

\* linear search over 1..m-1, the products taken in u16
mod_inverse(a, m) ==
    IF ~are_coprime(a, m) THEN Err("InvalidInput")
    ELSE LET hits == {i \in 1..(m - 1) : ((a * i) % 65536) % m = 1}
         IN  IF hits # {}
             THEN Ok(CHOOSE i \in hits : \A j \in hits : i <= j)
             ELSE Err("InvalidInput")

(***************************************************************************)
(* utils/matrix.rs: a square matrix [size, data], data row-major.          *)
(***************************************************************************)
Matrix_new(size, data) ==
    IF Len(data) # size * size THEN Err("InvalidInput")
    ELSE Ok([size |-> size, data |-> data])

get(M, row, col) == M.data[row * M.size + col + 1]

\* the entries left after deleting skip_row and skip_col, in row-major order
RECURSIVE MinorData(_, _, _, _)
MinorData(M, skip_row, skip_col, i) ==
    IF i >= M.size * M.size THEN <<>>
    ELSE LET row == i \div M.size
             col == i % M.size
         IN  IF row = skip_row \/ col = skip_col
             THEN MinorData(M, skip_row, skip_col, i + 1)
             ELSE <<get(M, row, col)>> \o MinorData(M, skip_row, skip_col, i + 1)

minor(M, skip_row, skip_col) ==
    Matrix_new(M.size - 1, MinorData(M, skip_row, skip_col, 0)).val

\* i32: the sum a + b fits, and the sum as a release build wraps it.  The
\* matrices modelled have entries in 0..25 and at most 6 rows, for which the
\* products of determinant stay below 25 * 5 * 25^5 and fit; the sums of the
\* default arm need not.
I32Max == 2147483647
I32Min == -I32Max - 1
AddFits(a, b) == IF b >= 0 THEN a <= I32Max - b ELSE a >= I32Min - b
wrapping_add(a, b) ==
    IF AddFits(a, b) THEN a + b
    ELSE IF b >= 0 THEN ((a + I32Min) + b) + I32Min
    ELSE ((a - I32Min) + b) - I32Min

RECURSIVE determinant(_)
\* cofactor * self.get(0, col) * minor.determinant()
LaplaceTerm(M, col) ==
    (IF col % 2 = 0 THEN 1 ELSE -1) * get(M, 0, col) * determinant(minor(M, 0, col))

\* variant of LaplaceSum: the cofactor sign left out
RECURSIVE LaplaceSum_unsigned(_, _)
LaplaceSum_unsigned(M, col) ==
    IF col = 0 THEN 0
    ELSE wrapping_add(LaplaceSum_unsigned(M, col - 1),
                      get(M, 0, col - 1) * determinant(minor(M, 0, col - 1)))

RECURSIVE LaplaceSum(_, _)
\* the loop of the default arm: det after the columns 0..col-1
LaplaceSum(M, col) ==
    IF col = 0 THEN 0
    ELSE wrapping_add(LaplaceSum(M, col - 1), LaplaceTerm(M, col - 1))

\* variant of determinant: the middle term of the 3 x 3 expansion added
determinant_unsigned(M) ==
    CASE M.size = 1 -> M.data[1]
      [] M.size = 2 -> get(M, 0, 0) * get(M, 1, 1) - get(M, 0, 1) * get(M, 1, 0)
      [] M.size = 3 ->
            LET a == get(M, 0, 0)
                       * (get(M, 1, 1) * get(M, 2, 2) - get(M, 1, 2) * get(M, 2, 1))
                b == get(M, 0, 1)
                       * (get(M, 1, 0) * get(M, 2, 2) - get(M, 1, 2) * get(M, 2, 0))
                c == get(M, 0, 2)
                       * (get(M, 1, 0) * get(M, 2, 1) - get(M, 1, 1) * get(M, 2, 0))
            IN  a + b + c
      [] OTHER -> LaplaceSum(M, M.size)

determinant(M) ==
    CASE M.size = 1 -> M.data[1]
      [] M.size = 2 -> get(M, 0, 0) * get(M, 1, 1) - get(M, 0, 1) * get(M, 1, 0)
      [] M.size = 3 ->
            LET a == get(M, 0, 0)
                       * (get(M, 1, 1) * get(M, 2, 2) - get(M, 1, 2) * get(M, 2, 1))
                b == get(M, 0, 1)
                       * (get(M, 1, 0) * get(M, 2, 2) - get(M, 1, 2) * get(M, 2, 0))
                c == get(M, 0, 2)
                       * (get(M, 1, 0) * get(M, 2, 1) - get(M, 1, 1) * get(M, 2, 0))
            IN  a - b + c
      [] OTHER -> LaplaceSum(M, M.size)

\* a `det += ...` of the default arm, here or in a minor, leaves the i32
\* range: a debug build panics there, a release build wraps
RECURSIVE determinant_overflows(_)
determinant_overflows(M) ==
    /\ M.size >= 4
    /\ \E col \in 0..(M.size - 1) :
           \/ determinant_overflows(minor(M, 0, col))
           \/ ~AddFits(LaplaceSum(M, col), LaplaceTerm(M, col))

\* variant of adjugate: the cofactor matrix without the transposition
adjugate_untransposed(M) ==
    LET n == M.size
        entry(i) ==
            LET row == (i - 1) \div n
                col == (i - 1) % n
            IN  (IF (row + col) % 2 = 0 THEN 1 ELSE -1)
                    * determinant(minor(M, row, col))
    IN  Matrix_new(n, [i \in 1..(n * n) |-> entry(i)]).val

\* adj_data[col * size + row] = cofactor(row, col) * det(minor(row, col))
adjugate(M) ==
    LET n == M.size
        entry(i) ==
            LET col == (i - 1) \div n
                row == (i - 1) % n
            IN  (IF (row + col) % 2 = 0 THEN 1 ELSE -1)
                    * determinant(minor(M, row, col))
    IN  Matrix_new(n, [i \in 1..(n * n) |-> entry(i)]).val

\* variant of Matrix_mod_inverse: only a zero determinant is refused
Matrix_mod_inverse_nonzero(M, modulus) ==
    LET det == determinant(M)
        det_mod == det % modulus
    IN  IF det_mod = 0 THEN Err("InvalidKey")
        ELSE LET inv == mod_inverse(det_mod % 256, modulus % 256)
             IN  IF ~IsOk(inv) THEN inv
                 ELSE LET det_inv == inv.val
                          adj == adjugate(M)
                      IN  Matrix_new(M.size,
                              [i \in 1..(M.size * M.size) |->
                                  (adj.data[i] * det_inv) % modulus])

Matrix_mod_inverse(M, modulus) ==
    LET det == determinant(M)
        det_mod == det % modulus
    IN  IF gcd(det_mod % 256, modulus % 256) # 1 THEN Err("InvalidKey")
        ELSE LET inv == mod_inverse(det_mod % 256, modulus % 256)
             IN  IF ~IsOk(inv) THEN inv
                 ELSE LET det_inv == inv.val
                          adj == adjugate(M)
                      IN  Matrix_new(M.size,
                              [i \in 1..(M.size * M.size) |->
                                  (adj.data[i] * det_inv) % modulus])

\* variant of multiply_vector: the matrix read column by column
multiply_vector_transposed(M, vec) ==
    LET Cols == 0..((IF Len(vec) < M.size THEN Len(vec) ELSE M.size) - 1)
        RECURSIVE RowSum(_, _)
        RowSum(row, col) ==
            IF col \notin Cols THEN 0
            ELSE get(M, col, row) * vec[col + 1] + RowSum(row, col + 1)
    IN  [i \in 1..M.size |-> RowSum(i - 1, 0)]

multiply_vector(M, vec) ==
    LET Cols == 0..((IF Len(vec) < M.size THEN Len(vec) ELSE M.size) - 1)
        RECURSIVE RowSum(_, _)
        RowSum(row, col) ==
            IF col \notin Cols THEN 0
            ELSE get(M, row, col) * vec[col + 1] + RowSum(row, col + 1)
    IN  [i \in 1..M.size |-> RowSum(i - 1, 0)]

(***************************************************************************)
(* utils/mode.rs                                                           *)
(***************************************************************************)
TextMode == {"AlphaOnly", "PreserveAll"}

(***************************************************************************)
(* classic/caesar.rs                                                       *)
(***************************************************************************)
\* variant of Caesar_with_mode: the shift stored as given
Caesar_with_mode_unreduced(shift, mode) == Ok([shift |-> shift, mode |-> mode])

Caesar_with_mode(shift, mode) == Ok([shift |-> shift % AlphabetSize, mode |-> mode])

\* variant of shift_char: the truncating remainder `%` in place of rem_euclid
shift_char_truncating(cs, c, encrypt) ==
    IF ~is_ascii_alphabetic(c) THEN c
    ELSE LET base == IF is_ascii_uppercase(c) THEN UpperA ELSE LowerA
             idx == to_ascii_lowercase(c) - LowerA
             shift == IF encrypt THEN cs.shift ELSE -cs.shift
             sum == idx + shift
             shifted == IF sum < 0 THEN -((-sum) % AlphabetSize) ELSE sum % AlphabetSize
         IN  base + shifted

\* the sum is taken in i8: idx in 0..25, shift in -25..25
shift_char(cs, c, encrypt) ==
    IF ~is_ascii_alphabetic(c) THEN c
    ELSE LET base == IF is_ascii_uppercase(c) THEN UpperA ELSE LowerA
             idx == to_ascii_lowercase(c) - LowerA
             shift == IF encrypt THEN cs.shift ELSE -cs.shift
             shifted == (idx + shift) % AlphabetSize
         IN  base + shifted

\* variant of Caesar_process_text: the letters are filtered out in either mode
Caesar_process_text_filtering(cs, text, encrypt) ==
    LET f == FilterAlpha(text)
    IN  [i \in 1..Len(f) |-> shift_char(cs, f[i], encrypt)]

Caesar_process_text(cs, text, encrypt) ==
    IF cs.mode = "AlphaOnly"
    THEN LET f == FilterAlpha(text)
         IN  [i \in 1..Len(f) |-> shift_char(cs, f[i], encrypt)]
    ELSE [i \in 1..Len(text) |->
             IF is_ascii_alphabetic(text[i])
             THEN shift_char(cs, text[i], encrypt)
             ELSE text[i]]

\* variant of Caesar_encrypt: the is_empty() test left out
Caesar_encrypt_unchecked(cs, plaintext) ==
    LET result == Caesar_process_text(cs, plaintext, TRUE)
    IN  IF cs.mode = "AlphaOnly" /\ result = <<>>
        THEN Err("InvalidInput")
        ELSE Ok(result)

Caesar_encrypt(cs, plaintext) ==
    IF plaintext = <<>> THEN Err("InvalidInput")
    ELSE LET result == Caesar_process_text(cs, plaintext, TRUE)
         IN  IF cs.mode = "AlphaOnly" /\ result = <<>>
             THEN Err("InvalidInput")
             ELSE Ok(result)

Caesar_decrypt(cs, ciphertext) ==
    IF ciphertext = <<>> THEN Err("InvalidInput")
    ELSE LET result == Caesar_process_text(cs, ciphertext, FALSE)
         IN  IF cs.mode = "AlphaOnly" /\ result = <<>>
             THEN Err("InvalidInput")
             ELSE Ok(result)

(***************************************************************************)
(* classic/affine.rs                                                       *)
(***************************************************************************)
\* variant of validate_multiplier: only even multipliers are refused
validate_multiplier_parity(multiplier) ==
    IF multiplier % 2 = 0 THEN Err("InvalidKey") ELSE Ok(<<>>)

validate_multiplier(multiplier) ==
    IF ~are_coprime(multiplier, AlphabetSize) THEN Err("InvalidKey") ELSE Ok(<<>>)

Affine_with_mode(shift, multiplier, mode) ==
    IF ~IsOk(validate_multiplier(multiplier)) THEN validate_multiplier(multiplier)
    ELSE LET inv == mod_inverse(multiplier, AlphabetSize)
         IN  IF ~IsOk(inv) THEN inv
             ELSE Ok([shift |-> shift % AlphabetSize,
                      multiplier |-> multiplier,
                      inv_multiplier |-> inv.val,
                      mode |-> mode])

\* variant of process_char: decrypt multiplies by the inverse before it
\* subtracts the shift
process_char_inverse_first(af, c, encrypt) ==
    IF ~is_ascii_alphabetic(c) THEN c
    ELSE LET base == IF is_ascii_uppercase(c) THEN UpperA ELSE LowerA
             idx == to_ascii_lowercase(c) - LowerA
             processed_idx ==
                 IF encrypt
                 THEN ((af.multiplier * idx + af.shift) % 65536) % AlphabetSize
                 ELSE (af.inv_multiplier * idx - af.shift) % AlphabetSize
         IN  base + processed_idx

\* variant of process_char: the result is always based at 'a'
process_char_lowercasing(af, c, encrypt) ==
    IF ~is_ascii_alphabetic(c) THEN c
    ELSE LET idx == to_ascii_lowercase(c) - LowerA
             processed_idx ==
                 IF encrypt
                 THEN ((af.multiplier * idx + af.shift) % 65536) % AlphabetSize
                 ELSE LET shifted == (idx - af.shift) % AlphabetSize
                      IN  ((af.inv_multiplier * shifted) % 65536) % AlphabetSize
         IN  LowerA + processed_idx

\* encrypt in u16, the subtraction of decrypt in i16
process_char(af, c, encrypt) ==
    IF ~is_ascii_alphabetic(c) THEN c
    ELSE LET base == IF is_ascii_uppercase(c) THEN UpperA ELSE LowerA
             idx == to_ascii_lowercase(c) - LowerA
             processed_idx ==
                 IF encrypt
                 THEN ((af.multiplier * idx + af.shift) % 65536) % AlphabetSize
                 ELSE LET shifted == (idx - af.shift) % AlphabetSize
                      IN  ((af.inv_multiplier * shifted) % 65536) % AlphabetSize
         IN  base + processed_idx

Affine_process_text(af, text, encrypt) ==
    IF af.mode = "AlphaOnly"
    THEN LET f == FilterAlpha(text)
         IN  [i \in 1..Len(f) |-> process_char(af, f[i], encrypt)]
    ELSE [i \in 1..Len(text) |->
             IF is_ascii_alphabetic(text[i])
             THEN process_char(af, text[i], encrypt)
             ELSE text[i]]

Affine_encrypt(af, plaintext) ==
    IF plaintext = <<>> THEN Err("InvalidInput")
    ELSE LET result == Affine_process_text(af, plaintext, TRUE)
         IN  IF af.mode = "AlphaOnly" /\ result = <<>>
             THEN Err("InvalidInput")
             ELSE Ok(result)

Affine_decrypt(af, ciphertext) ==
    IF ciphertext = <<>> THEN Err("InvalidInput")
    ELSE LET result == Affine_process_text(af, ciphertext, FALSE)
         IN  IF af.mode = "AlphaOnly" /\ result = <<>>
             THEN Err("InvalidInput")
             ELSE Ok(result)

(***************************************************************************)
(* classic/hill.rs                                                         *)
(***************************************************************************)
\* (len as f64).sqrt() as usize
FloorSqrt(n) == CHOOSE k \in 0..n : k * k <= n /\ (k + 1) * (k + 1) > n

validate_key(matrix) == Matrix_mod_inverse(matrix, AlphabetSize)

Hill_prepare_key(key) ==
    LET key_clean == Lowercase(FilterAlpha(key))
        key_size == FloorSqrt(Len(key_clean))
    IN  IF key_size * key_size # Len(key_clean) THEN Err("InvalidKey")
        ELSE LET matrix_data == [i \in 1..Len(key_clean) |-> key_clean[i] - LowerA]
                 key_matrix == Matrix_new(key_size, matrix_data)
             IN  IF ~IsOk(key_matrix) THEN key_matrix
                 ELSE LET inv_key_matrix == validate_key(key_matrix.val)
                      IN  IF ~IsOk(inv_key_matrix) THEN inv_key_matrix
                          ELSE Ok([key |-> key_matrix.val,
                                   inv_key |-> inv_key_matrix.val,
                                   key_size |-> key_size])

Hill_with_mode(key, mode) ==
    LET k == Hill_prepare_key(key)
    IN  IF ~IsOk(k) THEN k
        ELSE Ok([key |-> k.val.key, inv_key |-> k.val.inv_key,
                 key_size |-> k.val.key_size, mode |-> mode])

Hill_prepare_text(h, text) ==
    LET clean == Lowercase(FilterAlpha(text))
        remainder == Len(clean) % h.key_size
    IN  IF remainder # 0
        THEN clean \o [i \in 1..(h.key_size - remainder) |-> LetterX]
        ELSE clean

text_to_vector(text) == [i \in 1..Len(text) |-> to_ascii_lowercase(text[i]) - LowerA]

vector_to_text(vector) == [i \in 1..Len(vector) |-> LowerA + (vector[i] % AlphabetSize)]

\* vector.chunks(key_size): chunk k holds entries k*key_size+1 .. (k+1)*key_size
Hill_process_text(h, text, encrypt) ==
    LET prepared == Hill_prepare_text(h, text)
        vector == text_to_vector(prepared)
        matrix == IF encrypt THEN h.key ELSE h.inv_key
        n == h.key_size
        chunk(k) == SubSeq(vector, k * n + 1, (k + 1) * n)
        result == [i \in 1..Len(vector) |->
                      multiply_vector(matrix, chunk((i - 1) \div n))[((i - 1) % n) + 1]
                          % AlphabetSize]
    IN  vector_to_text(result)

Hill_encrypt(h, plaintext) ==
    IF plaintext = <<>> THEN Err("InvalidInput")
    ELSE IF ~AnyAlpha(plaintext) THEN Err("InvalidInput")
    ELSE Ok(Hill_process_text(h, plaintext, TRUE))

\* variant of Hill_decrypt: the test for an alphabetic character left out
Hill_decrypt_unchecked(h, ciphertext) ==
    IF ciphertext = <<>> THEN Err("InvalidInput")
    ELSE Ok(Hill_process_text(h, ciphertext, FALSE))

Hill_decrypt(h, ciphertext) ==
    IF ciphertext = <<>> THEN Err("InvalidInput")
    ELSE IF ~AnyAlpha(ciphertext) THEN Err("InvalidInput")
    ELSE Ok(Hill_process_text(h, ciphertext, FALSE))

(***************************************************************************)
(* classic/playfair.rs                                                     *)
(***************************************************************************)
\* "abcdefghiklmnopqrstuvwxyz"
ReducedAlphabet ==
    [i \in 1..25 |-> IF LowerA + i - 1 < LetterJ THEN LowerA + i - 1 ELSE LowerA + i]

Contains(seq, c) == \E i \in 1..Len(seq) : seq[i] = c

\* variant of UniqueKeyChars: 'j' is kept, not folded to 'i'
RECURSIVE UniqueKeyChars_unfolded(_, _)
UniqueKeyChars_unfolded(unique_chars, key) ==
    IF key = <<>> THEN unique_chars
    ELSE LET c == Head(key)
             c_lower == to_ascii_lowercase(c)
         IN  IF ~is_ascii_alphabetic(c) THEN UniqueKeyChars_unfolded(unique_chars, Tail(key))
             ELSE IF Contains(unique_chars, c_lower)
                  THEN UniqueKeyChars_unfolded(unique_chars, Tail(key))
                  ELSE UniqueKeyChars_unfolded(Append(unique_chars, c_lower), Tail(key))

\* the first loop of prepare_key: letters, lowercased, j -> i, first occurrences
RECURSIVE UniqueKeyChars(_, _)
UniqueKeyChars(unique_chars, key) ==
    IF key = <<>> THEN unique_chars
    ELSE LET c == Head(key)
             c_lower == to_ascii_lowercase(c)
             c_normalized == IF c_lower = LetterJ THEN LetterI ELSE c_lower
         IN  IF ~is_ascii_alphabetic(c) THEN UniqueKeyChars(unique_chars, Tail(key))
             ELSE IF Contains(unique_chars, c_normalized)
                  THEN UniqueKeyChars(unique_chars, Tail(key))
                  ELSE UniqueKeyChars(Append(unique_chars, c_normalized), Tail(key))

\* the second loop of prepare_key: the rest of the reduced alphabet, in order
RECURSIVE FillAlphabet(_, _)
FillAlphabet(unique_chars, i) ==
    IF i > Len(ReducedAlphabet) THEN unique_chars
    ELSE IF Contains(unique_chars, ReducedAlphabet[i])
         THEN FillAlphabet(unique_chars, i + 1)
         ELSE FillAlphabet(Append(unique_chars, ReducedAlphabet[i]), i + 1)

Playfair_prepare_key(key) == FillAlphabet(UniqueKeyChars(<<>>, key), 1)

\* variant of generate_matrix: the keyword laid out column by column
generate_matrix_column_major(key) ==
    [r \in 1..5 |-> [c \in 1..5 |->
        LET i == (c - 1) * 5 + r
        IN  IF i <= Len(key) THEN key[i] - LowerA ELSE 0]]

\* matrix[i / 5][i % 5] = key[i] - 'a'; cells past the key stay 0
generate_matrix(key) ==
    [r \in 1..5 |-> [c \in 1..5 |->
        LET i == (r - 1) * 5 + c
        IN  IF i <= Len(key) THEN key[i] - LowerA ELSE 0]]

Playfair_with_mode(key, mode) ==
    IF key = <<>> THEN Err("InvalidKey")
    ELSE LET prepared_key == Playfair_prepare_key(key)
         IN  Ok([key |-> prepared_key,
                 matrix |-> generate_matrix(prepared_key),
                 mode |-> mode])

\* variant of PrepareScan: the index advances by two after a pair of
\* different letters, so only the letters of one pair are compared
RECURSIVE PrepareScan_pairwise(_, _)
PrepareScan_pairwise(chars, i) ==
    IF i > Len(chars) THEN <<>>
    ELSE IF i = Len(chars) THEN <<chars[i]>>
    ELSE IF chars[i] = chars[i + 1]
         THEN <<chars[i], LetterX>> \o PrepareScan_pairwise(chars, i + 1)
         ELSE <<chars[i], chars[i + 1]>> \o PrepareScan_pairwise(chars, i + 2)

\* the while loop of prepare_text from index i (1-based here)
RECURSIVE PrepareScan(_, _)
PrepareScan(chars, i) ==
    IF i > Len(chars) THEN <<>>
    ELSE IF i = Len(chars) THEN <<chars[i]>>
    ELSE IF chars[i] = chars[i + 1]
         THEN <<chars[i], LetterX>> \o PrepareScan(chars, i + 1)
         ELSE <<chars[i]>> \o PrepareScan(chars, i + 1)

\* variant of Playfair_prepare_text: no 'x' appended to an odd length
Playfair_prepare_text_unpadded(text) ==
    LET lower == Lowercase(FilterAlpha(text))
        filtered == [i \in 1..Len(lower) |->
                        IF lower[i] = LetterJ THEN LetterI ELSE lower[i]]
    IN  PrepareScan(filtered, 1)

\* variant of Playfair_prepare_text: 'j' is kept, not folded to 'i'
Playfair_prepare_text_unfolded(text) ==
    LET filtered == Lowercase(FilterAlpha(text))
        prepared == PrepareScan(filtered, 1)
    IN  IF Len(prepared) % 2 = 1 THEN Append(prepared, LetterX) ELSE prepared

Playfair_prepare_text(text) ==
    LET lower == Lowercase(FilterAlpha(text))
        filtered == [i \in 1..Len(lower) |->
                        IF lower[i] = LetterJ THEN LetterI ELSE lower[i]]
        prepared == PrepareScan(filtered, 1)
    IN  IF Len(prepared) % 2 = 1 THEN Append(prepared, LetterX) ELSE prepared

\* variant of get_coordinates: only the first row of the square is searched
get_coordinates_first_row(pf, char_val) ==
    LET hits == {i \in 0..4 : pf.matrix[1][i + 1] = char_val}
    IN  IF hits = {} THEN Err("InvalidInput")
        ELSE LET i == CHOOSE x \in hits : \A y \in hits : x <= y
             IN  Ok(<<0, i>>)

\* the first cell in row-major order that holds char_val, as <<row, col>>
get_coordinates(pf, char_val) ==
    LET hits == {i \in 0..24 : pf.matrix[(i \div 5) + 1][(i % 5) + 1] = char_val}
    IN  IF hits = {} THEN Err("InvalidInput")
        ELSE LET i == CHOOSE x \in hits : \A y \in hits : x <= y
             IN  Ok(<<i \div 5, i % 5>>)

\* variant of process_pair: in the rectangle case the letters exchange rows
process_pair_swapped_rows(pf, pair, encrypt) ==
    IF Len(pair) # 2 THEN Err("InvalidInput")
    ELSE LET p1 == get_coordinates(pf, pair[1] - LowerA)
             p2 == get_coordinates(pf, pair[2] - LowerA)
         IN  IF ~IsOk(p1) THEN p1
             ELSE IF ~IsOk(p2) THEN p2
             ELSE LET row1 == p1.val[1]
                      col1 == p1.val[2]
                      row2 == p2.val[1]
                      col2 == p2.val[2]
                      shift == IF encrypt THEN 1 ELSE 4
                      new == IF row1 = row2
                             THEN <<row1, (col1 + shift) % 5, row2, (col2 + shift) % 5>>
                             ELSE IF col1 = col2
                             THEN <<(row1 + shift) % 5, col1, (row2 + shift) % 5, col2>>
                             ELSE <<row2, col1, row1, col2>>
                  IN  Ok(<<pf.matrix[new[1] + 1][new[2] + 1] + LowerA,
                           pf.matrix[new[3] + 1][new[4] + 1] + LowerA>>)

process_pair(pf, pair, encrypt) ==
    IF Len(pair) # 2 THEN Err("InvalidInput")
    ELSE LET char1_val == pair[1] - LowerA
             char2_val == pair[2] - LowerA
             p1 == get_coordinates(pf, char1_val)
             p2 == get_coordinates(pf, char2_val)
         IN  IF ~IsOk(p1) THEN p1
             ELSE IF ~IsOk(p2) THEN p2
             ELSE LET row1 == p1.val[1]
                      col1 == p1.val[2]
                      row2 == p2.val[1]
                      col2 == p2.val[2]
                      shift == IF encrypt THEN 1 ELSE 4
                      new == IF row1 = row2
                             THEN <<row1, (col1 + shift) % 5, row2, (col2 + shift) % 5>>
                             ELSE IF col1 = col2
                             THEN <<(row1 + shift) % 5, col1, (row2 + shift) % 5, col2>>
                             ELSE <<row1, col2, row2, col1>>
                  IN  Ok(<<pf.matrix[new[1] + 1][new[2] + 1] + LowerA,
                           pf.matrix[new[3] + 1][new[4] + 1] + LowerA>>)

\* chars.chunks(2) from position i, the first Err returned by `?`
RECURSIVE ProcessPairs(_, _, _, _)
ProcessPairs(pf, chars, i, encrypt) ==
    IF i > Len(chars) THEN Ok(<<>>)
    ELSE LET last_i == IF i + 1 <= Len(chars) THEN i + 1 ELSE Len(chars)
             r == process_pair(pf, SubSeq(chars, i, last_i), encrypt)
         IN  IF ~IsOk(r) THEN r
             ELSE LET rest == ProcessPairs(pf, chars, i + 2, encrypt)
                  IN  IF ~IsOk(rest) THEN rest ELSE Ok(r.val \o rest.val)

Playfair_process_text(pf, text, encrypt) ==
    ProcessPairs(pf, Playfair_prepare_text(text), 1, encrypt)

Playfair_encrypt(pf, plaintext) ==
    IF plaintext = <<>> THEN Err("InvalidInput")
    ELSE IF ~AnyAlpha(plaintext) THEN Err("InvalidInput")
    ELSE Playfair_process_text(pf, plaintext, TRUE)

Playfair_decrypt(pf, ciphertext) ==
    IF ciphertext = <<>> THEN Err("InvalidInput")
    ELSE IF ~AnyAlpha(ciphertext) THEN Err("InvalidInput")
    ELSE Playfair_process_text(pf, ciphertext, FALSE)

(***************************************************************************)
(* The arguments the caller draws from.                                    *)
(***************************************************************************)
\* 'X', '1'
TextChars == {88, 49}
\* "a", "help", "cat", "Jump", "he11o!", "hello"
TestTexts == {<<97>>, <<104, 101, 108, 112>>, <<99, 97, 116>>, <<74, 117, 109, 112>>,
              <<104, 101, 49, 49, 111, 33>>, <<104, 101, 108, 108, 111>>}
Texts == SeqsUpTo(TextChars, MaxTextLen) \cup TestTexts

\* 'b', 'C'
KeyChars == {98, 67}
ShortKeys == SeqsUpTo(KeyChars, MaxKeyLen)
\* "hill", "ddcf", "aaaa", "hello", "gybnqkurp", "bbb bbb bbb", "d-", "-"
HillTestKeys == {<<104, 105, 108, 108>>, <<100, 100, 99, 102>>, <<97, 97, 97, 97>>,
                 <<104, 101, 108, 108, 111>>,
                 <<103, 121, 98, 110, 113, 107, 117, 114, 112>>,
                 <<98, 98, 98, 32, 98, 98, 98, 32, 98, 98, 98>>,
                 <<100, 45>>, <<45>>}
HillKeys == ShortKeys \cup HillTestKeys
\* "secret", "Jump", "keyword", "-"
PlayfairTestKeys == {<<115, 101, 99, 114, 101, 116>>, <<74, 117, 109, 112>>,
                     <<107, 101, 121, 119, 111, 114, 100>>, <<45>>}
PlayfairKeys == ShortKeys \cup PlayfairTestKeys

\* every residue, four values that need reducing, and the largest u8
ShiftArgs == 0..(AlphabetSize + 3) \cup {U8Max}
\* every residue, 26 and 27, and the largest u8
MultiplierArgs == 0..MaxMultiplierArg \cup {U8Max}
\* the smaller sets the Affine setters draw from where texts are processed too:
\* 34 = 26 + 8; 2, 13 and 26 are not coprime with 26
FewShiftArgs == {0, 8, 34, U8Max}
FewMultiplierArgs == {1, 2, 5, 7, 13, 26, 27}

(***************************************************************************)
(* Construction.                                                           *)
(***************************************************************************)
Call(op, arg, res) == [op |-> op, arg |-> arg, res |-> res, plain |-> <<>>]

Unit(r) == IF IsOk(r) THEN Ok(<<>>) ELSE r

Constructed(sch, arg, r) ==
    /\ scheme = sch
    /\ phase = IF IsOk(r) THEN "live" ELSE "failed"
    /\ self = r.val
    /\ last = Call("new", arg, Unit(r))

Caesar_new(Shifts) ==
    \E shift \in Shifts, mode \in TextMode :
        Constructed("caesar", <<shift>>, Caesar_with_mode(shift, mode))

Affine_new(Shifts, Multipliers) ==
    \E shift \in Shifts, multiplier \in Multipliers, mode \in TextMode :
        Constructed("affine", <<shift, multiplier>>,
                    Affine_with_mode(shift, multiplier, mode))

Playfair_new(Keys) ==
    \E key \in Keys, mode \in TextMode :
        Constructed("playfair", key, Playfair_with_mode(key, mode))

Hill_new(Keys) ==
    \E key \in Keys, mode \in TextMode :
        Constructed("hill", key, Hill_with_mode(key, mode))

Live(sch) == scheme = sch /\ phase = "live"

(***************************************************************************)
(* Setters.                                                                *)
(***************************************************************************)
Caesar_set_shift(shift) ==
    /\ Live("caesar")
    /\ self' = [self EXCEPT !.shift = shift % AlphabetSize]
    /\ last' = Call("set_shift", shift, Ok(<<>>))
    /\ UNCHANGED <<scheme, phase>>

Affine_set_shift(shift) ==
    /\ Live("affine")
    /\ self' = [self EXCEPT !.shift = shift % AlphabetSize]
    /\ last' = Call("set_shift", shift, Ok(<<>>))
    /\ UNCHANGED <<scheme, phase>>

Affine_set_multiplier(multiplier) ==
    /\ Live("affine")
    /\ LET v == validate_multiplier(multiplier)
       IN  /\ self' = IF IsOk(v) THEN [self EXCEPT !.multiplier = multiplier] ELSE self
           /\ last' = Call("set_multiplier", multiplier, v)
    /\ UNCHANGED <<scheme, phase>>

Playfair_set_key(key) ==
    /\ Live("playfair")
    /\ IF key = <<>>
       THEN /\ self' = self
            /\ last' = Call("set_key", key, Err("InvalidKey"))
       ELSE /\ self' = [self EXCEPT
                          !.key = Playfair_prepare_key(key),
                          !.matrix = generate_matrix(Playfair_prepare_key(key))]
            /\ last' = Call("set_key", key, Ok(<<>>))
    /\ UNCHANGED <<scheme, phase>>

\* variant of Hill_set_key: key_size is stored before the key is validated
Hill_set_key_eager(key) ==
    /\ Live("hill")
    /\ LET k == Hill_prepare_key(key)
           key_size == FloorSqrt(Len(FilterAlpha(key)))
       IN  /\ self' = IF IsOk(k)
                      THEN [self EXCEPT !.key = k.val.key,
                                        !.inv_key = k.val.inv_key,
                                        !.key_size = k.val.key_size]
                      ELSE [self EXCEPT !.key_size = key_size]
           /\ last' = Call("set_key", key, Unit(k))
    /\ UNCHANGED <<scheme, phase>>

Hill_set_key(key) ==
    /\ Live("hill")
    /\ LET k == Hill_prepare_key(key)
       IN  /\ self' = IF IsOk(k)
                      THEN [self EXCEPT !.key = k.val.key,
                                        !.inv_key = k.val.inv_key,
                                        !.key_size = k.val.key_size]
                      ELSE self
           /\ last' = Call("set_key", key, Unit(k))
    /\ UNCHANGED <<scheme, phase>>

\* the same three lines in each of the four types
set_mode(mode) ==
    /\ phase = "live"
    /\ self' = [self EXCEPT !.mode = mode]
    /\ last' = Call("set_mode", mode, Ok(<<>>))
    /\ UNCHANGED <<scheme, phase>>

(***************************************************************************)
(* impl Drop: what the fields hold when the instance is released.          *)
(***************************************************************************)
Dropped ==
    /\ phase' = "dropped"
    /\ last' = Call("drop", <<>>, Ok(<<>>))
    /\ UNCHANGED scheme

Caesar_drop ==
    /\ Live("caesar")
    /\ self' = [self EXCEPT !.shift = 0]
    /\ Dropped

Affine_drop ==
    /\ Live("affine")
    /\ self' = [self EXCEPT !.shift = 0, !.multiplier = 0, !.inv_multiplier = 0]
    /\ Dropped

Playfair_drop ==
    /\ Live("playfair")
    /\ self' = [self EXCEPT !.matrix = [r \in 1..5 |-> [c \in 1..5 |-> 0]]]
    /\ Dropped

\* the body of drop is empty
Hill_drop ==
    /\ Live("hill")
    /\ self' = self
    /\ Dropped

(***************************************************************************)
(* traits/cipher.rs: encrypt and decrypt, dispatched on the type.          *)
(***************************************************************************)
Cipher_encrypt(sch, obj, plaintext) ==
    CASE sch = "caesar" -> Caesar_encrypt(obj, plaintext)
      [] sch = "affine" -> Affine_encrypt(obj, plaintext)
      [] sch = "playfair" -> Playfair_encrypt(obj, plaintext)
      [] sch = "hill" -> Hill_encrypt(obj, plaintext)

Cipher_decrypt(sch, obj, ciphertext) ==
    CASE sch = "caesar" -> Caesar_decrypt(obj, ciphertext)
      [] sch = "affine" -> Affine_decrypt(obj, ciphertext)
      [] sch = "playfair" -> Playfair_decrypt(obj, ciphertext)
      [] sch = "hill" -> Hill_decrypt(obj, ciphertext)

Encrypt(plaintext) ==
    /\ phase = "live"
    /\ last' = Call("encrypt", plaintext, Cipher_encrypt(scheme, self, plaintext))
    /\ UNCHANGED <<scheme, phase, self>>

Decrypt(ciphertext) ==
    /\ phase = "live"
    /\ last' = Call("decrypt", ciphertext, Cipher_decrypt(scheme, self, ciphertext))
    /\ UNCHANGED <<scheme, phase, self>>

\* the caller hands the ciphertext it has just received back to decrypt
DecryptLast ==
    /\ phase = "live"
    /\ last.op = "encrypt"
    /\ IsOk(last.res)
    /\ last' = [Call("decrypt", last.res.val,
                     Cipher_decrypt(scheme, self, last.res.val))
                   EXCEPT !.plain = <<last.arg>>]
    /\ UNCHANGED <<scheme, phase, self>>

(***************************************************************************)
(* Spec: an instance of any of the four types, its setters, and texts      *)
(* encrypted and decrypted in every state the setters reach.               *)
(***************************************************************************)
Init ==
    \/ Caesar_new(ShiftArgs)
    \/ Affine_new(FewShiftArgs, FewMultiplierArgs)
    \/ Playfair_new(PlayfairKeys \cup {<<>>})
    \/ Hill_new(HillKeys)

Next ==
    \/ \E shift \in ShiftArgs : Caesar_set_shift(shift)
    \/ \E shift \in FewShiftArgs : Affine_set_shift(shift)
    \/ \E multiplier \in FewMultiplierArgs : Affine_set_multiplier(multiplier)
    \/ \E key \in PlayfairKeys \cup {<<>>} : Playfair_set_key(key)
    \/ \E key \in HillKeys : Hill_set_key(key)
    \/ \E mode \in TextMode : set_mode(mode)
    \/ \E plaintext \in Texts : Encrypt(plaintext)
    \/ \E ciphertext \in Texts : Decrypt(ciphertext)
    \/ DecryptLast

Spec == Init /\ [][Next]_vars

(***************************************************************************)
(* SpecKeys: construction and the setters alone, over the wider argument   *)
(* sets.                                                                   *)
(***************************************************************************)
InitKeys ==
    \/ Caesar_new(ShiftArgs)
    \/ Affine_new(FewShiftArgs, MultiplierArgs)
    \/ Playfair_new(PlayfairKeys \cup {<<>>})
    \/ Hill_new(HillKeys)

NextKeys ==
    \/ \E shift \in ShiftArgs : Caesar_set_shift(shift)
    \/ \E shift \in FewShiftArgs : Affine_set_shift(shift)
    \/ \E multiplier \in MultiplierArgs : Affine_set_multiplier(multiplier)
    \/ \E key \in PlayfairKeys \cup {<<>>} : Playfair_set_key(key)
    \/ \E key \in HillKeys : Hill_set_key(key)
    \/ \E mode \in TextMode : set_mode(mode)

SpecKeys == InitKeys /\ [][NextKeys]_vars

(***************************************************************************)
(* SpecFresh: an instance as its constructor leaves it (no setter is       *)
(* called), over the wider argument sets, and texts encrypted and          *)
(* decrypted.                                                              *)
(***************************************************************************)
InitFresh ==
    \/ Caesar_new(ShiftArgs)
    \/ Affine_new(ShiftArgs, MultiplierArgs)
    \/ Playfair_new(PlayfairKeys \cup {<<>>})
    \/ Hill_new(HillKeys)

NextFresh ==
    \/ \E plaintext \in Texts : Encrypt(plaintext)
    \/ \E ciphertext \in Texts : Decrypt(ciphertext)
    \/ DecryptLast

SpecFresh == InitFresh /\ [][NextFresh]_vars

(***************************************************************************)
(* SpecDrop: construction, the setters, and the release of the instance.   *)
(***************************************************************************)
NextDrop ==
    \/ NextKeys
    \/ Caesar_drop
    \/ Affine_drop
    \/ Playfair_drop
    \/ Hill_drop

SpecDrop == InitKeys /\ [][NextDrop]_vars

(***************************************************************************)
(* Calls of the private functions and of the utilities: Init hands one     *)
(* function its receiver and its argument, the action returns its result.  *)
(***************************************************************************)
NotReturned == [kind |-> "NotReturned", val |-> <<>>]

Called(fn, obj, arg) ==
    /\ scheme = fn
    /\ phase = "called"
    /\ self = obj
    /\ last = Call(fn, arg, NotReturned)

Return(fn, res) ==
    /\ scheme = fn
    /\ phase = "called"
    /\ phase' = "returned"
    /\ last' = [last EXCEPT !.res = res]
    /\ UNCHANGED <<scheme, self>>

(***************************************************************************)
(* SpecPlayfairText: Playfair::prepare_text on texts, and process_pair on  *)
(* every pair of letters of the square, under every key of PlayfairKeys.   *)
(***************************************************************************)
\* 'a', 'b', 'x', 'J', '1'
PlainChars == {97, 98, 120, 74, 49}
\* "hello", "balloon", "cat", "jump", "he11o!"
PrepareTestTexts == {<<104, 101, 108, 108, 111>>, <<98, 97, 108, 108, 111, 111, 110>>,
                     <<99, 97, 116>>, <<106, 117, 109, 112>>,
                     <<104, 101, 49, 49, 111, 33>>}
PlainTexts == SeqsUpTo(PlainChars, MaxPlainLen) \cup PrepareTestTexts

SquarePairs == {<<ReducedAlphabet[i], ReducedAlphabet[j]>> : i, j \in 1..25}

Call_prepare_text == Return("prepare_text", Ok(Playfair_prepare_text(last.arg)))

Call_process_pair ==
    Return("process_pair", process_pair(self, last.arg[1], last.arg[2]))

\* the pair just returned is handed back, in the other direction
Call_process_pair_back ==
    /\ scheme = "process_pair"
    /\ phase = "returned"
    /\ IsOk(last.res)
    /\ phase' = "reversed"
    /\ last' = [Call("process_pair", <<last.res.val, ~last.arg[2]>>,
                     process_pair(self, last.res.val, ~last.arg[2]))
                   EXCEPT !.plain = <<last.arg[1]>>]
    /\ UNCHANGED <<scheme, self>>

InitPlayfairText ==
    \/ \E text \in PlainTexts : Called("prepare_text", <<>>, text)
    \/ \E key \in PlayfairKeys \ {<<>>}, pair \in SquarePairs, encrypt \in BOOLEAN :
           Called("process_pair", Playfair_with_mode(key, "PreserveAll").val,
                  <<pair, encrypt>>)

NextPlayfairText ==
    \/ Call_prepare_text
    \/ Call_process_pair
    \/ Call_process_pair_back

SpecPlayfairText == InitPlayfairText /\ [][NextPlayfairText]_vars

(***************************************************************************)
(* SpecMatrix: Matrix::mod_inverse(26) on 2 x 2 and 3 x 3 matrices with    *)
(* entries in 0..25.                                                       *)
(***************************************************************************)
Entries2 == {0, 1, 2, 3, 5, 7, 8, 11, 13, 19, 24, 25}
Entries3 == {0, 1, 25}
\* the key matrices of the tests: "hill", "gybnqkurp"
TestMatrices == {[size |-> 2, data |-> <<7, 8, 11, 11>>],
                 [size |-> 3, data |-> <<6, 24, 1, 13, 16, 10, 20, 17, 15>>]}
Matrices ==
    {[size |-> 2, data |-> d] : d \in [1..4 -> Entries2]}
        \cup {[size |-> 3, data |-> d] : d \in [1..9 -> Entries3]}
        \cup TestMatrices

Call_Matrix_mod_inverse ==
    Return("Matrix::mod_inverse", Matrix_mod_inverse(self, last.arg))

InitMatrix == \E M \in Matrices : Called("Matrix::mod_inverse", M, AlphabetSize)

NextMatrix == Call_Matrix_mod_inverse

SpecMatrix == InitMatrix /\ [][NextMatrix]_vars

(***************************************************************************)
(* SpecMath: math::mod_inverse(a, m) on every pair of u8 values.           *)
(***************************************************************************)
Call_mod_inverse == Return("math::mod_inverse", mod_inverse(last.arg[1], last.arg[2]))

InitMath == \E a \in 0..U8Max, m \in 0..U8Max : Called("math::mod_inverse", <<>>, <<a, m>>)

NextMath == Call_mod_inverse

SpecMath == InitMath /\ [][NextMath]_vars

(***************************************************************************)
(* SpecMatrixOps: Matrix::determinant, adjugate, mod_inverse(26) and       *)
(* multiply_vector called on matrices with entries in 0..25, the 6 x 6 key *)
(* matrices of 36-letter Hill keys included.  The arithmetic is i32: where *)
(* a sum leaves the i32 range a debug build panics and a release build     *)
(* wraps, so such a call has both outcomes.                                *)
(***************************************************************************)
Panicked == [kind |-> "panic", val |-> <<>>]

Abs(a) == IF a < 0 THEN -a ELSE a
\* i32: the product a * b fits
MulFits(a, b) == a = 0 \/ Abs(b) <= I32Max \div Abs(a)

\* some minor.determinant() of adjugate overflows
adjugate_overflows(M) ==
    \E row \in 0..(M.size - 1), col \in 0..(M.size - 1) :
        determinant_overflows(minor(M, row, col))

\* determinant, adjugate or an `adj.data[i] * det_inv` of mod_inverse overflows
Matrix_mod_inverse_overflows(M, modulus) ==
    \/ determinant_overflows(M)
    \/ LET det_mod == determinant(M) % modulus
           inv == mod_inverse(det_mod % 256, modulus % 256)
       IN  /\ gcd(det_mod % 256, modulus % 256) = 1
           /\ IsOk(inv)
           /\ \/ adjugate_overflows(M)
              \/ LET adj == adjugate(M)
                 IN  \E i \in 1..(M.size * M.size) : ~MulFits(adj.data[i], inv.val)

\* `sum` of multiply_vector before the column col of the row
RECURSIVE RowSumBefore(_, _, _, _)
RowSumBefore(M, vec, row, col) ==
    IF col = 0 THEN 0
    ELSE wrapping_add(RowSumBefore(M, vec, row, col - 1),
                      get(M, row, col - 1) * vec[col])

\* a product or a `sum += ...` of multiply_vector overflows
multiply_vector_overflows(M, vec) ==
    \E row \in 0..(M.size - 1),
       col \in 0..((IF Len(vec) < M.size THEN Len(vec) ELSE M.size) - 1) :
        \/ ~MulFits(get(M, row, col), vec[col + 1])
        \/ ~AddFits(RowSumBefore(M, vec, row, col), get(M, row, col) * vec[col + 1])

Overflows(fn, M, arg) ==
    CASE fn = "Matrix::determinant" -> determinant_overflows(M)
      [] fn = "Matrix::adjugate" -> adjugate_overflows(M)
      [] fn = "Matrix::mod_inverse" -> Matrix_mod_inverse_overflows(M, arg)
      [] fn = "Matrix::multiply_vector" -> multiply_vector_overflows(M, arg)
      [] OTHER -> FALSE

\* first rows of the 4 x 4 matrices
FirstRows4 == {<<25, 0, 7, 1>>, <<13, 24, 25, 11>>}
DenseMatrices4 ==
    {[size |-> 4, data |-> <<6, 24, 1, 13, 16, 10, 20, 17, 15, 3, 7, 11, 2, 19, 5, 23>>],
     [size |-> 4, data |-> <<25, 25, 0, 1, 0, 25, 25, 0, 25, 0, 25, 25, 1, 25, 0, 25>>]}
Matrices1 == {[size |-> 1, data |-> <<v>>] : v \in 0..25}
Matrices4 ==
    {[size |-> 4, data |-> r \o d] : r \in FirstRows4, d \in [1..12 -> {0, 1}]}
        \cup DenseMatrices4
\* two 0/1 matrices of determinant 9 and -9 (the second is the first with
\* its two upper rows exchanged), each entry multiplied by v: for v = 25 the
\* key matrices of "zaaazzazzazazzazazaazzazaaazzazazzaa" and of
\* "azzazazaaazzzzazazaazzazaaazzazazzaa"
Patterns6 ==
    {<<1, 0, 0, 0, 1, 1,  0, 1, 1, 0, 1, 0,  1, 1, 0, 1, 0, 1,
       0, 0, 1, 1, 0, 1,  0, 0, 0, 1, 1, 0,  1, 0, 1, 1, 0, 0>>,
     <<0, 1, 1, 0, 1, 0,  1, 0, 0, 0, 1, 1,  1, 1, 0, 1, 0, 1,
       0, 0, 1, 1, 0, 1,  0, 0, 0, 1, 1, 0,  1, 0, 1, 1, 0, 0>>}
Matrices6 ==
    {[size |-> 6, data |-> [i \in 1..36 |-> v * p[i]]] :
        p \in Patterns6, v \in {1, 11, 24, 25}}
Vectors6 == [1..6 -> {0, 25}]

Call_determinant == Return("Matrix::determinant", Ok(determinant(self)))

Call_adjugate == Return("Matrix::adjugate", Ok(adjugate(self)))

Call_multiply_vector ==
    Return("Matrix::multiply_vector", Ok(multiply_vector(self, last.arg)))

\* debug build: "attempt to add with overflow"
overflow_panic ==
    /\ phase = "called"
    /\ Overflows(scheme, self, last.arg)
    /\ phase' = "returned"
    /\ last' = [last EXCEPT !.res = Panicked]
    /\ UNCHANGED <<scheme, self>>

InitMatrixOps ==
    \/ \E M \in Matrices1 \cup Matrices \cup Matrices4 \cup Matrices6 :
           Called("Matrix::determinant", M, <<>>)
    \/ \E M \in Matrices1 \cup Matrices \cup Matrices6 :
           Called("Matrix::adjugate", M, <<>>)
    \/ \E M \in Matrices6 : Called("Matrix::mod_inverse", M, AlphabetSize)
    \/ \E M \in Matrices6, vec \in Vectors6 :
           Called("Matrix::multiply_vector", M, vec)

NextMatrixOps ==
    \/ Call_determinant
    \/ Call_adjugate
    \/ Call_Matrix_mod_inverse
    \/ Call_multiply_vector
    \/ overflow_panic

SpecMatrixOps == InitMatrixOps /\ [][NextMatrixOps]_vars

(***************************************************************************)
(* Reference notions the properties below are stated with.                 *)
(***************************************************************************)
IsLetter(c) == (65 <= c /\ c <= 90) \/ (97 <= c /\ c <= 122)
LettersOf(t) == SelectSeq(t, IsLetter)
HasLetter(t) == LettersOf(t) # <<>>
ToLower(c) == IF 65 <= c /\ c <= 90 THEN c + 32 ELSE c
\* t as the mode keeps it: all of it, or its letters
FilteredPerMode(t, mode) == IF mode = "PreserveAll" THEN t ELSE LettersOf(t)
\* m and n have a common divisor greater than 1
HaveCommonDivisor(m, n) == \E d \in 2..n : m % d = 0 /\ n % d = 0
ValidMultipliers == {1, 3, 5, 7, 9, 11, 15, 17, 19, 21, 23, 25}
\* a decrypt that was handed the output of encrypt(t) on the same instance
RoundTripOf(sch) == Live(sch) /\ last.op = "decrypt" /\ last.plain # <<>>

\* the n x n matrix product of two row-major sequences, entries reduced mod 26
RECURSIVE DotFrom(_, _, _, _, _, _)
DotFrom(A, B, n, row, col, k) ==
    IF k > n THEN 0
    ELSE A[(row - 1) * n + k] * B[(k - 1) * n + col] + DotFrom(A, B, n, row, col, k + 1)
ProductMod26(A, B, n) ==
    [i \in 1..(n * n) |-> DotFrom(A, B, n, ((i - 1) \div n) + 1, ((i - 1) % n) + 1, 1) % 26]
IdentityData(n) == [i \in 1..(n * n) |-> IF (i - 1) \div n = (i - 1) % n THEN 1 ELSE 0]

\* the determinant as the signed sum over permutations (Leibniz)
PermutationsOf(n) == {p \in [1..n -> 1..n] : \A i, j \in 1..n : i # j => p[i] # p[j]}
Inversions(p, n) == Cardinality({ij \in (1..n) \X (1..n) : ij[1] < ij[2] /\ p[ij[1]] > p[ij[2]]})
RECURSIVE TermFrom(_, _, _, _)
TermFrom(data, p, n, i) ==
    IF i > n THEN 1 ELSE data[(i - 1) * n + p[i]] * TermFrom(data, p, n, i + 1)
RECURSIVE SumTerms(_, _, _)
SumTerms(data, n, ps) ==
    IF ps = {} THEN 0
    ELSE LET p == CHOOSE q \in ps : TRUE
         IN  (IF Inversions(p, n) % 2 = 0 THEN 1 ELSE -1) * TermFrom(data, p, n, 1)
                 + SumTerms(data, n, ps \ {p})
LeibnizDet(data, n) == SumTerms(data, n, PermutationsOf(n))

(***************************************************************************)
(* C1.  In every state of an Affine instance reached from a successful     *)
(* constructor by any sequence of set_shift, set_multiplier and set_mode   *)
(* calls, multiplier * inv_multiplier is 1 modulo 26.                      *)
(* set_multiplier stores the new multiplier and leaves inv_multiplier as   *)
(* it was, so the statement is violated.                                   *)
(***************************************************************************)
C1_AffineInverseInvariant ==
    Live("affine") => (self.multiplier * self.inv_multiplier) % 26 = 1

(***************************************************************************)
(* C2.  In every state of a Hill instance reached from a successful        *)
(* constructor by set_key and set_mode calls, for every accepted key size  *)
(* N, N = 1 included: key and inv_key are N x N with N = key_size, N * N   *)
(* is the number of letters of the accepted key string, and key * inv_key  *)
(* is the identity modulo 26.  For N = 1 the adjugate is computed from the *)
(* determinant of a 0 x 0 minor, which the code evaluates to 0, so         *)
(* inv_key = [0] and the statement is violated.                            *)
(***************************************************************************)
C2_HillKeyInvariant ==
    Live("hill") =>
        /\ self.key.size = self.key_size
        /\ self.inv_key.size = self.key_size
        /\ Len(self.key.data) = self.key_size * self.key_size
        /\ Len(self.inv_key.data) = self.key_size * self.key_size
        /\ (last.op \in {"new", "set_key"} /\ IsOk(last.res))
               => self.key_size * self.key_size = Len(LettersOf(last.arg))
        /\ ProductMod26(self.key.data, self.inv_key.data, self.key_size)
               = IdentityData(self.key_size)

C4_AffineFreshRoundTrip ==
    (RoundTripOf("affine") /\ self.multiplier \in ValidMultipliers
         /\ HasLetter(last.plain[1]))
        => last.res = Ok(FilteredPerMode(last.plain[1], self.mode))

\* "Jump" came back under multiplier 11, shift 3 (given as 29), PreserveAll
C4_Witness ==
    /\ RoundTripOf("affine")
    /\ self.multiplier = 11 /\ self.inv_multiplier = 19 /\ self.shift = 3
    /\ self.mode = "PreserveAll"
    /\ last.plain = <<(<<74, 117, 109, 112>>)>>
    /\ last.arg # last.plain[1]
    /\ last.res = Ok(<<74, 117, 109, 112>>)

(***************************************************************************)
(* C5.  For every Hill instance with an accepted key of size N >= 2 and    *)
(* every text t with at least one ASCII letter, decrypt(encrypt(t)) is the *)
(* letters of t, lowercased and right-padded with 'x' to the next multiple *)
(* of N.                                                                   *)
(***************************************************************************)
PaddedLetters(t, n) ==
    LET low == [i \in 1..Len(LettersOf(t)) |-> ToLower(LettersOf(t)[i])]
    IN  low \o [i \in 1..((n - (Len(low) % n)) % n) |-> 120]

C5_HillRoundTrip ==
    (RoundTripOf("hill") /\ self.key_size >= 2 /\ HasLetter(last.plain[1]))
        => last.res = Ok(PaddedLetters(last.plain[1], self.key_size))

\* "cat" under the 2 x 2 key "hill" came back as "catx"
C5_Witness ==
    /\ RoundTripOf("hill")
    /\ self.key = [size |-> 2, data |-> <<7, 8, 11, 11>>]
    /\ last.plain = <<(<<99, 97, 116>>)>>
    /\ last.res = Ok(<<99, 97, 116, 120>>)

(***************************************************************************)
(* C6.  For every Playfair instance and every text t with at least one     *)
(* ASCII letter, decrypt(encrypt(t)) is prepare_text(t).  decrypt runs     *)
(* prepare_text on the ciphertext, which inserts an 'x' between equal      *)
(* adjacent letters of the ciphertext, so the statement is violated.       *)
(***************************************************************************)
C6_PlayfairRoundTrip ==
    (RoundTripOf("playfair") /\ HasLetter(last.plain[1]))
        => last.res = Ok(Playfair_prepare_text(last.plain[1]))

(***************************************************************************)
(* C7.  Affine::new(shift, m) and set_multiplier(m) return InvalidKey for  *)
(* every m that has a common divisor with 26, and succeed for every m in   *)
(* {1,3,5,7,9,11,15,17,19,21,23,25}.                                       *)
(***************************************************************************)
C7_AffineMultiplierValidation ==
    /\ (scheme = "affine" /\ last.op = "new") =>
           /\ HaveCommonDivisor(last.arg[2], 26)
                  => (last.res = Err("InvalidKey") /\ phase = "failed")
           /\ last.arg[2] \in ValidMultipliers
                  => (IsOk(last.res) /\ phase = "live"
                      /\ self.multiplier = last.arg[2])
    /\ (scheme = "affine" /\ last.op = "set_multiplier") =>
           /\ HaveCommonDivisor(last.arg, 26) => last.res = Err("InvalidKey")
           /\ last.arg \in ValidMultipliers
                  => (IsOk(last.res) /\ self.multiplier = last.arg)

\* set_multiplier(13) on a live instance returned InvalidKey
C7_Witness ==
    /\ Live("affine")
    /\ last.op = "set_multiplier"
    /\ last.arg = 13
    /\ last.res = Err("InvalidKey")

(***************************************************************************)
(* C8.  Hill::new / with_mode / set_key return InvalidKey when the number  *)
(* of ASCII letters of the key string is not a perfect square, and when    *)
(* the determinant of the key matrix reduced modulo 26 has a common        *)
(* divisor with 26 (a key with no letters included); for every other key   *)
(* they succeed.                                                           *)
(***************************************************************************)
HillKeyAcceptable(key) ==
    LET letters == LettersOf(key)
        data == [i \in 1..Len(letters) |-> ToLower(letters[i]) - 97]
    IN  /\ letters # <<>>
        /\ \E n \in 1..Len(letters) :
               /\ n * n = Len(letters)
               /\ ~HaveCommonDivisor(LeibnizDet(data, n) % 26, 26)

C9_EmptyInputRejected ==
    (last.op \in {"encrypt", "decrypt"} /\ last.arg = <<>>)
        => last.res = Err("InvalidInput")

\* decrypt("") on a Caesar instance in PreserveAll mode after a set_shift
C9_Witness ==
    /\ Live("caesar")
    /\ self.mode = "PreserveAll"
    /\ last.op = "decrypt"
    /\ last.arg = <<>>
    /\ last.res = Err("InvalidInput")

IsResidue26(r, v) == r \in 0..25 /\ \E q \in 0..10 : v = 26 * q + r

ShiftNormalized ==
    /\ Live("caesar") \/ Live("affine") => self.shift \in 0..25
    /\ (scheme = "caesar" /\ last.op = "new") =>
           (phase = "live" /\ IsOk(last.res) /\ IsResidue26(self.shift, last.arg[1]))
    /\ (scheme = "affine" /\ last.op = "new") =>
           IF phase = "live" THEN IsResidue26(self.shift, last.arg[1])
           ELSE last.res = Err("InvalidKey") /\ HaveCommonDivisor(last.arg[2], 26)
    /\ (scheme \in {"caesar", "affine"} /\ last.op = "set_shift") =>
           (IsOk(last.res) /\ IsResidue26(self.shift, last.arg))

ShiftKeptByOtherCalls ==
    (scheme \in {"caesar", "affine"} /\ last'.op # "set_shift")
        => self'.shift = self.shift

NotLetter(c) == ~IsLetter(c)
NonLettersOf(t) == SelectSeq(t, NotLetter)
TextCallReturned == phase = "live" /\ last.op \in {"encrypt", "decrypt"} /\ IsOk(last.res)

ResidueOf(v) == CHOOSE r \in 0..25 : \E q \in (-1)..255 : v = 26 * q + r

\* the index a reference cipher gives the letter index x
RefIndex(sch, obj, x, op) ==
    CASE sch = "caesar" /\ op = "encrypt" -> ResidueOf(x + obj.shift)
      [] sch = "caesar" /\ op = "decrypt" -> ResidueOf(x - obj.shift)
      [] sch = "affine" /\ op = "encrypt" -> ResidueOf(obj.multiplier * x + obj.shift)
      [] sch = "affine" /\ op = "decrypt" ->
             ResidueOf(obj.inv_multiplier * ResidueOf(x - obj.shift))

RefChar(sch, obj, c, op) ==
    IF 65 <= c /\ c <= 90 THEN 65 + RefIndex(sch, obj, c - 65, op)
    ELSE IF 97 <= c /\ c <= 122 THEN 97 + RefIndex(sch, obj, c - 97, op)
    ELSE c

RefText(sch, obj, t, op) ==
    LET kept == FilteredPerMode(t, obj.mode)
    IN  [i \in 1..Len(kept) |-> RefChar(sch, obj, kept[i], op)]

SquareLetters == (97..122) \ {106}
CellsHolding(matrix, c) ==
    {rc \in (1..5) \X (1..5) : matrix[rc[1]][rc[2]] + 97 = c}

C14_PlayfairSquare ==
    Live("playfair") =>
        /\ Len(self.key) = 25
        /\ \A c \in SquareLetters :
               /\ Cardinality(CellsHolding(self.matrix, c)) = 1
               /\ Cardinality({i \in 1..Len(self.key) : self.key[i] = c}) = 1

\* the instance built from "Jump" ('j' folded to 'i') after a failed set_key("")
C14_Witness ==
    /\ Live("playfair")
    /\ last.op = "set_key"
    /\ last.arg = <<>>
    /\ last.res = Err("InvalidKey")
    /\ SubSeq(self.key, 1, 5) = <<105, 117, 109, 112, 97>>
    /\ self.matrix[1] = <<8, 20, 12, 15, 0>>

(***************************************************************************)
(* C15.  Playfair prepare_text as the pair-scanning rule: after filtering  *)
(* to letters, lowercasing and folding j to i, the text is scanned left to *)
(* right in pairs; an 'x' is inserted only between two identical letters   *)
(* that form one pair (scanning resumes from the second of them),          *)
(* identical letters that straddle a pair boundary get no insertion, an    *)
(* 'xx' pair is passed through, and a trailing 'x' is appended only when a *)
(* final letter is left unpaired.  The code compares every letter with its *)
(* successor, whatever their place in a pair, so the statement is          *)
(* violated ("abba" gives "abxbax", not "abba").                           *)
(***************************************************************************)
\* the letters of t, lowercased, 'j' folded to 'i'
FoldedLetters(t) ==
    [i \in 1..Len(LettersOf(t)) |->
        IF ToLower(LettersOf(t)[i]) = 106 THEN 105 ELSE ToLower(LettersOf(t)[i])]

RECURSIVE PairScan(_, _)
PairScan(f, i) ==
    IF i > Len(f) THEN <<>>
    ELSE IF i = Len(f) THEN <<f[i], 120>>
    ELSE IF f[i] = f[i + 1] /\ f[i] # 120 THEN <<f[i], 120>> \o PairScan(f, i + 1)
    ELSE <<f[i], f[i + 1]>> \o PairScan(f, i + 2)

PrepareTextReturned == scheme = "prepare_text" /\ phase = "returned"

C15_PairScanningRule ==
    PrepareTextReturned => last.res = Ok(PairScan(FoldedLetters(last.arg), 1))

(***************************************************************************)
(* C15 as amended.  After filtering to letters, lowercasing and folding j  *)
(* to i, prepare_text inserts an 'x' between every two adjacent identical  *)
(* letters, wherever they stand and 'x','x' included, keeps the letters in *)
(* their order, and appends one trailing 'x' when the length reached is    *)
(* odd.                                                                    *)
(***************************************************************************)
\* the positions of f whose letter equals the next one
DoubledAt(f) == {d \in 1..(Len(f) - 1) : f[d] = f[d + 1]}
\* where the i-th letter of f stands once an 'x' follows every doubled position
PlaceOf(f, i) == i + Cardinality({d \in DoubledAt(f) : d < i})

IsPreparedFrom(out, f) ==
    LET core == Len(f) + Cardinality(DoubledAt(f))
        Places == {PlaceOf(f, i) : i \in 1..Len(f)}
    IN  /\ Len(out) = IF core % 2 = 1 THEN core + 1 ELSE core
        /\ \A i \in 1..Len(f) : out[PlaceOf(f, i)] = f[i]
        /\ \A k \in (1..Len(out)) \ Places : out[k] = 120

C15_AdjacentDoublesRule ==
    PrepareTextReturned =>
        (IsOk(last.res) /\ IsPreparedFrom(last.res.val, FoldedLetters(last.arg)))

\* "abba": the two b's straddle a pair boundary and are split all the same
C15_Witness ==
    /\ PrepareTextReturned
    /\ last.arg = <<97, 98, 98, 97>>
    /\ last.res = Ok(<<97, 98, 120, 98, 97, 120>>)

(***************************************************************************)
(* C16.  For every input text, the output of Playfair prepare_text has     *)
(* even length, and no digraph (the characters at positions 2k and 2k+1,   *)
(* counted from 0) consists of two equal letters unless both are 'x'.      *)
(***************************************************************************)
C16_PreparedDigraphs ==
    PrepareTextReturned =>
        LET out == last.res.val
        IN  /\ IsOk(last.res)
            /\ Len(out) % 2 = 0
            /\ \A k \in 1..(Len(out) \div 2) :
                   out[2 * k - 1] = out[2 * k] => out[2 * k] = 120

\* "axx" gives "axxx": the second digraph is 'x','x'
C16_Witness ==
    /\ PrepareTextReturned
    /\ last.arg = <<97, 120, 120>>
    /\ last.res = Ok(<<97, 120, 120, 120>>)

(***************************************************************************)
(* C17.  For every Playfair key square and every pair of square letters,   *)
(* process_pair returns: if both letters are in the same row, the letters  *)
(* one column to the right (encrypt) or left (decrypt), wrapping modulo 5; *)
(* else if in the same column, the letters one row down (encrypt) or up    *)
(* (decrypt), wrapping modulo 5; otherwise each letter is replaced by the  *)
(* letter in its own row and its partner's column.  Consequently           *)
(* process_pair(decrypt) of process_pair(encrypt) of a pair is that pair.  *)
(***************************************************************************)
\* the cell <<row, col>> (from 0) of the square that holds the letter c
CellOf(matrix, c) ==
    CHOOSE rc \in (0..4) \X (0..4) : matrix[rc[1] + 1][rc[2] + 1] + 97 = c
LetterAt(matrix, rc) == matrix[rc[1] + 1][rc[2] + 1] + 97
\* one step forward (encrypt) or back (decrypt) on a line of five
Step(k, encrypt) == IF encrypt THEN (IF k = 4 THEN 0 ELSE k + 1)
                    ELSE (IF k = 0 THEN 4 ELSE k - 1)

RefPair(matrix, pair, encrypt) ==
    LET a == CellOf(matrix, pair[1])
        b == CellOf(matrix, pair[2])
    IN  IF a[1] = b[1]
        THEN <<LetterAt(matrix, <<a[1], Step(a[2], encrypt)>>),
               LetterAt(matrix, <<b[1], Step(b[2], encrypt)>>)>>
        ELSE IF a[2] = b[2]
        THEN <<LetterAt(matrix, <<Step(a[1], encrypt), a[2]>>),
               LetterAt(matrix, <<Step(b[1], encrypt), b[2]>>)>>
        ELSE <<LetterAt(matrix, <<a[1], b[2]>>), LetterAt(matrix, <<b[1], a[2]>>)>>

C17_ProcessPair ==
    (scheme = "process_pair" /\ phase \in {"returned", "reversed"}) =>
        /\ last.res = Ok(RefPair(self.matrix, last.arg[1], last.arg[2]))
        /\ (phase = "reversed" /\ last.arg[2] = FALSE) => last.res = Ok(last.plain[1])

\* key "secret": 'e' and 't' stand in the first row of the square, "secrt";
\* encrypted to "cs" ('t' wraps to the first column), and "cs" decrypted
\* back to "et"
C17_Witness ==
    /\ scheme = "process_pair"
    /\ phase = "reversed"
    /\ self.matrix[1] = <<18, 4, 2, 17, 19>>
    /\ last.plain = <<(<<101, 116>>)>>
    /\ last.arg[2] = FALSE
    /\ last.res = Ok(<<101, 116>>)

(***************************************************************************)
(* C18.  For every square matrix M of size 2 or 3 with entries in [0,25],  *)
(* Matrix::mod_inverse(26) returns InvalidKey exactly when the determinant *)
(* of M reduced modulo 26 is not coprime with 26, and otherwise returns a  *)
(* matrix inv of the same size with all entries in [0,26) such that        *)
(* M * inv is the identity modulo 26.                                      *)
(***************************************************************************)
C18_MatrixModInverse ==
    (scheme = "Matrix::mod_inverse" /\ phase = "returned") =>
        LET n == self.size
            det == LeibnizDet(self.data, n)
        IN  IF HaveCommonDivisor(det % 26, 26)
            THEN last.res = Err("InvalidKey")
            ELSE /\ IsOk(last.res)
                 /\ last.res.val.size = n
                 /\ Len(last.res.val.data) = n * n
                 /\ \A i \in 1..(n * n) : last.res.val.data[i] \in 0..25
                 /\ ProductMod26(self.data, last.res.val.data, n) = IdentityData(n)

\* the 3 x 3 key matrix of "gybnqkurp" and its inverse
C18_Witness ==
    /\ scheme = "Matrix::mod_inverse"
    /\ phase = "returned"
    /\ self = [size |-> 3, data |-> <<6, 24, 1, 13, 16, 10, 20, 17, 15>>]
    /\ last.res = Ok([size |-> 3, data |-> <<8, 5, 10, 21, 8, 21, 21, 12, 8>>])

(***************************************************************************)
(* C19.  For all u8 values a and m, math::mod_inverse(a, m) returns an     *)
(* InvalidInput error if gcd(a, m) # 1, and otherwise returns the unique i *)
(* in [1, m) with a * i = 1 (mod m).  For m = 1 (and for a = 1, m = 0) the *)
(* gcd is 1 and no such i exists: the search loop is empty and the call    *)
(* returns InvalidInput, so the statement is violated.                     *)
(***************************************************************************)
\* no d > 1 divides both a and m (gcd(0, 0) = 0 is not 1: every d divides 0)
Coprime(a, m) == ~\E d \in 2..255 : a % d = 0 /\ m % d = 0

IsInverseOf(i, a, m) == i \in 1..(m - 1) /\ (a * i) % m = 1

ReturnsTheInverse(res, a, m) ==
    /\ IsOk(res)
    /\ IsInverseOf(res.val, a, m)
    /\ \A j \in 1..(m - 1) : IsInverseOf(j, a, m) => j = res.val

ModInverseReturned == scheme = "math::mod_inverse" /\ phase = "returned"

C19_ModInverseAllModuli ==
    ModInverseReturned =>
        LET a == last.arg[1]
            m == last.arg[2]
        IN  IF ~Coprime(a, m) THEN last.res = Err("InvalidInput")
            ELSE ReturnsTheInverse(last.res, a, m)

(***************************************************************************)
(* C19 as amended.  For all u8 values a and m, math::mod_inverse(a, m)     *)
(* returns an InvalidInput error if gcd(a, m) # 1 or m < 2, and otherwise  *)
(* returns the unique i in [1, m) with a * i = 1 (mod m).                  *)
(***************************************************************************)
C19_ModInverse ==
    ModInverseReturned =>
        LET a == last.arg[1]
            m == last.arg[2]
        IN  IF ~Coprime(a, m) \/ m < 2 THEN last.res = Err("InvalidInput")
            ELSE ReturnsTheInverse(last.res, a, m)

\* mod_inverse(7, 1): gcd 1, nothing in [1, 1), InvalidInput
C19_Witness ==
    /\ ModInverseReturned
    /\ last.arg = <<7, 1>>
    /\ last.res = Err("InvalidInput")

(***************************************************************************)
(* C20.  A call that returns an error has no side effects: after a failed  *)
(* Affine::set_multiplier, Hill::set_key or Playfair::set_key every field  *)
(* of the instance (shift, multiplier, inverse, key, inverse key, key      *)
(* size, keyword, square, mode) is unchanged, and encrypt / decrypt        *)
(* (successful or failed) never change any field.                          *)
(***************************************************************************)
FailedSetterOrTextCall ==
    \/ last'.op \in {"set_multiplier", "set_key"} /\ ~IsOk(last'.res)
    \/ last'.op \in {"encrypt", "decrypt"}

InstanceUnchanged == self' = self /\ scheme' = scheme /\ phase' = phase

C20_NoSideEffects == [][FailedSetterOrTextCall => InstanceUnchanged]_vars

\* set_key("aaaa") failed on the Hill instance built from "hill"
C20_Witness ==
    /\ Live("hill")
    /\ last.op = "set_key"
    /\ last.arg = <<97, 97, 97, 97>>
    /\ last.res = Err("InvalidKey")
    /\ self.key = [size |-> 2, data |-> <<7, 8, 11, 11>>]
    /\ self.inv_key = [size |-> 2, data |-> <<25, 22, 1, 23>>]
    /\ self.key_size = 2

(***************************************************************************)
(* C21.  When an instance of any of the four schemes is destroyed, all of  *)
(* its numeric key material is overwritten with zeros before release: the  *)
(* Caesar shift; the Affine shift, multiplier and inverse multiplier;      *)
(* every cell of the Playfair square; every entry of the Hill key matrix   *)
(* and inverse key matrix.  The drop of Hill has an empty body, so the     *)
(* statement is violated for Hill.                                         *)
(***************************************************************************)
AllZero(seq) == \A i \in 1..Len(seq) : seq[i] = 0

C21_KeyMaterialZeroed ==
    phase = "dropped" =>
        CASE scheme = "caesar" -> self.shift = 0
          [] scheme = "affine" ->
                 self.shift = 0 /\ self.multiplier = 0 /\ self.inv_multiplier = 0
          [] scheme = "playfair" -> \A r \in 1..5 : AllZero(self.matrix[r])
          [] scheme = "hill" -> AllZero(self.key.data) /\ AllZero(self.inv_key.data)

(***************************************************************************)
(* C22.  In every state of an Affine instance (after any successful        *)
(* Affine::new with any u8 multiplier argument, and after any sequence of  *)
(* setters) the stored multiplier lies in [1,25] and is coprime with 26.   *)
(* The multiplier is validated for coprimality only and stored as given,   *)
(* so 27 (and every larger u8 coprime with 26) is accepted and stored: the *)
(* statement is violated.                                                  *)
(***************************************************************************)
C22_MultiplierRange ==
    Live("affine") =>
        (self.multiplier \in 1..25 /\ ~HaveCommonDivisor(self.multiplier, 26))

(***************************************************************************)
(* C23.  Hill encrypt (resp. decrypt) equals the reference transformation: *)
(* keep the ASCII letters of the input lowercased, right-pad with 'x' up   *)
(* to the least multiple of N, split into consecutive chunks of length N,  *)
(* multiply each chunk by the key matrix (resp. the inverse key matrix),   *)
(* reduce every component mod 26, map back to lowercase letters and        *)
(* concatenate in order; so the output is all lowercase letters and its    *)
(* length is the least multiple of N that is >= the number of letters.     *)
(***************************************************************************)
\* row r (from 1) of the n x n matrix data times chunk c (from 0) of the text p
RECURSIVE RowTimesChunk(_, _, _, _, _, _)
RowTimesChunk(data, p, n, r, c, k) ==
    IF k > n THEN 0
    ELSE data[(r - 1) * n + k] * (p[c * n + k] - 97)
             + RowTimesChunk(data, p, n, r, c, k + 1)

RefHill(obj, t, op) ==
    LET n == obj.key_size
        p == PaddedLetters(t, n)
        data == IF op = "encrypt" THEN obj.key.data ELSE obj.inv_key.data
    IN  [i \in 1..Len(p) |->
            97 + (RowTimesChunk(data, p, n, ((i - 1) % n) + 1, (i - 1) \div n, 1) % 26)]

LeastMultipleAtLeast(n, k) == CHOOSE m \in k..(k + n) :
    /\ m % n = 0
    /\ \A j \in k..(m - 1) : j % n # 0

C23_HillReference ==
    (Live("hill") /\ last.op \in {"encrypt", "decrypt"} /\ HasLetter(last.arg)) =>
        /\ last.res = Ok(RefHill(self, last.arg, last.op))
        /\ \A i \in 1..Len(last.res.val) : last.res.val[i] \in 97..122
        /\ Len(last.res.val)
               = LeastMultipleAtLeast(self.key_size, Len(LettersOf(last.arg)))

\* "he11o!" under the 3 x 3 key "gybnqkurp": "heo", one chunk, no padding
C23_Witness ==
    /\ Live("hill")
    /\ self.key = [size |-> 3, data |-> <<6, 24, 1, 13, 16, 10, 20, 17, 15>>]
    /\ last.op = "encrypt"
    /\ last.arg = <<104, 101, 49, 49, 111, 33>>
    /\ IsOk(last.res)
    /\ Len(last.res.val) = 3
    /\ last.res.val # <<104, 101, 111>>

(***************************************************************************)
(* C24.  After any successful setter call the instance is observationally  *)
(* equivalent to a freshly constructed one with the resulting parameters:  *)
(* for every input text, encrypt and decrypt of Caesar after set_shift(s), *)
(* of Affine after set_shift(s) or set_multiplier(m), and of Hill /        *)
(* Playfair after set_key(k) return the same result as an instance built   *)
(* by the constructor with those values and the same mode.  After          *)
(* set_multiplier the Affine instance keeps the inverse of its former      *)
(* multiplier (C1), so its decrypt differs from the fresh instance's and   *)
(* the statement is violated.                                              *)
(***************************************************************************)
\* the instance the constructor builds from the parameters obj holds after
\* the setter call c
FreshAfter(sch, obj, c) ==
    CASE sch = "caesar" -> Caesar_with_mode(c.arg, obj.mode)
      [] sch = "affine" /\ c.op = "set_shift" ->
             Affine_with_mode(c.arg, obj.multiplier, obj.mode)
      [] sch = "affine" /\ c.op = "set_multiplier" ->
             Affine_with_mode(obj.shift, c.arg, obj.mode)
      [] sch = "playfair" -> Playfair_with_mode(c.arg, obj.mode)
      [] sch = "hill" -> Hill_with_mode(c.arg, obj.mode)

C24_SetterEqualsConstructor ==
    (phase = "live" /\ last.op \in {"set_shift", "set_multiplier", "set_key"}
         /\ IsOk(last.res)) =>
        LET fresh == FreshAfter(scheme, self, last)
        IN  /\ IsOk(fresh)
            /\ \A t \in Texts :
                   /\ Cipher_encrypt(scheme, self, t) = Cipher_encrypt(scheme, fresh.val, t)
                   /\ Cipher_decrypt(scheme, self, t) = Cipher_decrypt(scheme, fresh.val, t)

(***************************************************************************)
(* C25.  For every square matrix of size 1 to 4, Matrix::determinant       *)
(* returns the true determinant, the signed sum over the permutations of   *)
(* the products of one entry per row and column (Leibniz).                 *)
(***************************************************************************)
C25_DeterminantIsLeibniz ==
    (scheme = "Matrix::determinant" /\ phase = "returned" /\ self.size \in 1..4)
        => last.res = Ok(LeibnizDet(self.data, self.size))

\* a 4 x 4 matrix, expanded along its first row: determinant 59779
C25_Witness ==
    /\ scheme = "Matrix::determinant"
    /\ phase = "returned"
    /\ self = [size |-> 4,
               data |-> <<6, 24, 1, 13, 16, 10, 20, 17, 15, 3, 7, 11, 2, 19, 5, 23>>]
    /\ last.res = Ok(59779)

(***************************************************************************)
(* C26.  For every square matrix M of size N in 1..3, the matrix adj       *)
(* returned by Matrix::adjugate is N x N, its entry at (col, row) is       *)
(* (-1)^(row+col) times the determinant of M without row `row` and column  *)
(* `col`, and M * adj is the determinant of M times the identity.  For     *)
(* N = 1 the minor is the 0 x 0 matrix, whose determinant (the empty       *)
(* product, 1) the code computes as 0: adj is [0] and M * adj is [0], so   *)
(* the statement is violated.                                              *)
(***************************************************************************)
\* row-major entries of the n x n matrix `data` without row r and column c
WithoutRowCol(data, n, r, c) ==
    [k \in 1..((n - 1) * (n - 1)) |->
        LET rr == (k - 1) \div (n - 1)
            cc == (k - 1) % (n - 1)
        IN  data[((IF rr >= r THEN rr + 1 ELSE rr) * n)
                     + (IF cc >= c THEN cc + 1 ELSE cc) + 1]]

C26_AdjugateIdentity ==
    (scheme = "Matrix::adjugate" /\ phase = "returned" /\ self.size \in 1..3) =>
        LET n == self.size
            adj == last.res.val
            det == LeibnizDet(self.data, n)
        IN  /\ IsOk(last.res)
            /\ adj.size = n
            /\ Len(adj.data) = n * n
            /\ \A row \in 0..(n - 1), col \in 0..(n - 1) :
                   adj.data[col * n + row + 1]
                       = (IF (row + col) % 2 = 0 THEN 1 ELSE -1)
                             * LeibnizDet(WithoutRowCol(self.data, n, row, col), n - 1)
            /\ \A i \in 1..n, j \in 1..n :
                   DotFrom(self.data, adj.data, n, i, j, 1)
                       = (IF i = j THEN det ELSE 0)

(***************************************************************************)
(* C27.  For every non-empty key string, the Playfair keyword is the key's *)
(* ASCII letters lowercased with 'j' replaced by 'i', each kept at its     *)
(* first occurrence only, followed by the letters of a..z without 'j' that *)
(* the key does not hold, in alphabetical order; the square holds this     *)
(* 25-character string row-major: cell (r, c) holds character 5r + c.      *)
(***************************************************************************)
\* the members of a finite set of integers in ascending order
RECURSIVE Ascending(_)
Ascending(S) ==
    IF S = {} THEN <<>>
    ELSE LET least == CHOOSE x \in S : \A y \in S : x <= y
         IN  <<least>> \o Ascending(S \ {least})

\* positions of the letters of f that did not occur earlier in f
FirstOccurrences(f) == {i \in 1..Len(f) : \A j \in 1..(i - 1) : f[j] # f[i]}

DerivedKeyword(key) ==
    LET f == FoldedLetters(key)
        first == Ascending(FirstOccurrences(f))
    IN  [k \in 1..Len(first) |-> f[first[k]]]
            \o Ascending(SquareLetters \ {f[i] : i \in 1..Len(f)})

C27_PlayfairKeyword ==
    (Live("playfair") /\ last.op \in {"new", "set_key"} /\ last.arg # <<>>) =>
        /\ IsOk(last.res)
        /\ self.key = DerivedKeyword(last.arg)
        /\ \A r \in 0..4, c \in 0..4 :
               self.matrix[r + 1][c + 1] + 97 = DerivedKeyword(last.arg)[5 * r + c + 1]

\* set_key("secret"): "secrt" and then the rest of the alphabet from 'a'
C27_Witness ==
    /\ Live("playfair")
    /\ last.op = "set_key"
    /\ last.arg = <<115, 101, 99, 114, 101, 116>>
    /\ SubSeq(self.key, 1, 7) = <<115, 101, 99, 114, 116, 97, 98>>
    /\ self.matrix[2] = <<0, 1, 3, 5, 6>>

(***************************************************************************)
(* C28.  For every input text, Playfair prepare_text returns the filtered  *)
(* text (ASCII letters, lowercased, j -> i) with one 'x' inserted after    *)
(* every letter that is immediately followed by an identical letter, plus  *)
(* one trailing 'x' exactly when the length after insertion is odd; each   *)
(* filtered letter is visited once, so the output holds at most two        *)
(* characters per letter.  "hello" -> "helxlo", "balloon" -> "balxloxonx", *)
(* "cat" -> "catx", "jump" -> "iump", "he11o!" -> "heox".                  *)
(***************************************************************************)
\* the first n letters of f, an 'x' after each one that equals its successor
RECURSIVE DoublesSplit(_, _)
DoublesSplit(f, n) ==
    IF n = 0 THEN <<>>
    ELSE DoublesSplit(f, n - 1)
             \o (IF n < Len(f) /\ f[n] = f[n + 1] THEN <<f[n], 120>> ELSE <<f[n]>>)

ExpectedPrepared(t) ==
    LET split == DoublesSplit(FoldedLetters(t), Len(FoldedLetters(t)))
    IN  IF Len(split) % 2 = 1 THEN split \o <<120>> ELSE split

\* the vectors of test_playfair_prepare_text and of the specification
PrepareVectors ==
    {<< <<104, 101, 108, 108, 111>>, <<104, 101, 108, 120, 108, 111>> >>,
     << <<98, 97, 108, 108, 111, 111, 110>>,
        <<98, 97, 108, 120, 108, 111, 120, 111, 110, 120>> >>,
     << <<99, 97, 116>>, <<99, 97, 116, 120>> >>,
     << <<106, 117, 109, 112>>, <<105, 117, 109, 112>> >>,
     << <<104, 101, 49, 49, 111, 33>>, <<104, 101, 111, 120>> >>}

C28_PrepareText ==
    PrepareTextReturned =>
        /\ last.res = Ok(ExpectedPrepared(last.arg))
        /\ Len(last.res.val) <= 2 * Len(LettersOf(last.arg))
        /\ \A v \in PrepareVectors : last.arg = v[1] => last.res = Ok(v[2])

\* "balloon": two doubles split and a trailing 'x'
C28_Witness ==
    /\ PrepareTextReturned
    /\ last.arg = <<98, 97, 108, 108, 111, 111, 110>>
    /\ last.res = Ok(<<98, 97, 108, 120, 108, 111, 120, 111, 110, 120>>)

(***************************************************************************)
(* C29.  Once construction has succeeded no transformation step fails: for *)
(* every scheme, in every state reached through the setters, encrypt and   *)
(* decrypt of an input with at least one ASCII letter return Ok (Playfair  *)
(* finds every prepared character in its square and every pair has two     *)
(* characters), and no operation returns EncryptionError or                *)
(* DecryptionError.                                                        *)
(***************************************************************************)
C29_NoTransformationFails ==
    /\ last.res.kind \notin {"EncryptionError", "DecryptionError"}
    /\ (phase = "live" /\ last.op \in {"encrypt", "decrypt"} /\ HasLetter(last.arg))
           => IsOk(last.res)

\* Playfair under a key that starts with 'b': "X1" (prepared as "xx", a
\* letter of the fifth row) decrypted
C29_Witness ==
    /\ Live("playfair")
    /\ last.op = "decrypt"
    /\ last.arg = <<88, 49>>
    /\ self.matrix[1][1] = 1
    /\ IsOk(last.res)
    /\ Len(last.res.val) >= 2

(***************************************************************************)
(* C30.  For every N x N matrix with N <= 6 and entries in 0..25, no       *)
(* intermediate or final value of determinant, adjugate, mod_inverse(26)   *)
(* or multiply_vector (on vectors with entries in 0..25) leaves the i32    *)
(* range: no call panics on overflow and none wraps.  A 6 x 6 matrix with  *)
(* entries 0 and 25 can have determinant 9 * 25^6 = 2197265625, above      *)
(* i32::MAX, and the last `det +=` of its first-row expansion overflows,   *)
(* so the statement is violated.                                           *)
(***************************************************************************)
C30_NoOverflow ==
    (/\ scheme \in {"Matrix::determinant", "Matrix::adjugate",
                    "Matrix::mod_inverse", "Matrix::multiply_vector"}
     /\ phase = "returned"
     /\ self.size <= 6)
        => /\ last.res # Panicked
           /\ ~Overflows(scheme, self, last.arg)
====
